---- MODULE Spec2Model ----
(***************************************************************************)
(* Model of the custom-auth-system permission engine:                      *)
(*   permissions_system/services.py   PermissionService                    *)
(*   permissions_system/models.py     the grant tables and their keys      *)
(*   permissions_system/views.py      the administrative views             *)
(*   permissions_system/permissions.py  the DRF permission classes         *)
(*   accounts/models.py               User flags and soft_delete           *)
(* Python values that can be None, int or str are records                  *)
(* [type, repr]; repr is what str() gives.                                 *)
(***************************************************************************)
EXTENDS Integers, Sequences, FiniteSets, TLC

VARIABLES
    User,                \* accounts.User rows: id -> [is_superuser, is_active]
    UserRole,            \* set of [user, role, assigned_by]
    RolePermission,      \* set of [role, permission, granted_by]
    UserPermission,      \* set of [user, permission, is_granted, granted_by]
    ResourcePermission,  \* set of [user, resource_type, resource_id, permission, is_granted]
    last,                \* the last call made and what it produced
    inflight             \* the requests being served: thread -> where its handler stands

vars == <<User, UserRole, RolePermission, UserPermission, ResourcePermission, last, inflight>>

----------------------------------------------------------------------------
(* Bounds of the model *)

\* rows in the four grant tables together
MaxRows == 4

\* the accounts.User rows and the Role rows of the model
UserIds == {1, 2}
RoleIds == {1, 2}

\* request.user of an unauthenticated request (AnonymousUser)
Anonymous == 0
\* an id that names no row of any table
NoSuchId == 99
\* a foreign key that is NULL (assigned_by / granted_by of rows made without one)
Null == 0

----------------------------------------------------------------------------
(* The permission catalogue, as seed_data creates it *)

SeedPermissions ==
    << [id |-> 1, code |-> "document.read",   resource_type |-> "document", action |-> "read"],
       [id |-> 2, code |-> "document.create", resource_type |-> "document", action |-> "create"],
       [id |-> 3, code |-> "document.update", resource_type |-> "document", action |-> "update"],
       [id |-> 4, code |-> "document.delete", resource_type |-> "document", action |-> "delete"],
       [id |-> 5, code |-> "project.read",    resource_type |-> "project",  action |-> "read"],
       [id |-> 6, code |-> "project.create",  resource_type |-> "project",  action |-> "create"],
       [id |-> 7, code |-> "project.update",  resource_type |-> "project",  action |-> "update"],
       [id |-> 8, code |-> "project.delete",  resource_type |-> "project",  action |-> "delete"],
       [id |-> 9, code |-> "admin.access",    resource_type |-> "admin",    action |-> "access"] >>

\* the catalogue rows that drawn tables and requests refer to
PermissionIds == {1, 9}

\* the Permission table
Permission == {SeedPermissions[i] : i \in DOMAIN SeedPermissions}

\* the roles of seed_data, in the order get_or_create makes them
SeedRoles ==
    << [id |-> 1, name |-> "admin",
        codes |-> {"document.read", "document.create", "document.update", "document.delete",
                   "project.read", "project.create", "project.update", "project.delete",
                   "admin.access"}],
       [id |-> 2, name |-> "manager",
        codes |-> {"document.read", "document.update", "project.read", "project.update"}],
       [id |-> 3, name |-> "editor",
        codes |-> {"document.create", "document.update", "project.create"}],
       [id |-> 4, name |-> "viewer",
        codes |-> {"document.read", "project.read"}] >>

\* the test users of seed_data, in the order create_user makes them
SeedUsers ==
    << [id |-> 1, email |-> "admin@test.com",   role |-> "admin"],
       [id |-> 2, email |-> "manager@test.com", role |-> "manager"],
       [id |-> 3, email |-> "editor@test.com",  role |-> "editor"],
       [id |-> 4, email |-> "viewer@test.com",  role |-> "viewer"] >>

\* the seeded roles (and their users) the model keeps
SeedRoleNames == {"manager", "editor", "viewer"}

PermissionById(id) == CHOOSE p \in Permission : p.id = id

\* permission__code of a row holding a permission foreign key
permission__code(row) == PermissionById(row.permission).code

----------------------------------------------------------------------------
(* Python values *)

None == [type |-> "NoneType", repr |-> "None"]
PyInt0 == [type |-> "int", repr |-> "0"]
PyInt7 == [type |-> "int", repr |-> "7"]
PyInt8 == [type |-> "int", repr |-> "8"]
PyStr7 == [type |-> "str", repr |-> "7"]

\* bool(v) as `if v:` takes it
Truthy(v) ==
    /\ v.type # "NoneType"
    /\ ~(v.type = "int" /\ v.repr = "0")
    /\ ~(v.type = "str" /\ v.repr = "")

\* str(v)
str(v) == v.repr

\* the database as the service reads it
DB == [User |-> User, UserRole |-> UserRole, RolePermission |-> RolePermission,
       UserPermission |-> UserPermission, ResourcePermission |-> ResourcePermission]

----------------------------------------------------------------------------
(* permissions_system/services.py *)

PyBool(b) == IF b THEN "True" ELSE "False"

\* a call that returned `value` after the store lookups `lookups`
Returns(value, lookups, warned) ==
    [exc |-> "", line |-> 0, value |-> value, lookups |-> lookups, warned |-> warned]

\* a call that ended in an uncaught exception raised at `line`
Raises(exc, line, lookups) ==
    [exc |-> exc, line |-> line, value |-> "", lookups |-> lookups, warned |-> FALSE]

\* ResourcePermission.objects.get(user, resource_type, resource_id=str(..), permission__code)
\* "True" / "False" for the row's is_granted, "None" on DoesNotExist
_check_resource_permission(db, user, permission_code, resource_type, resource_id) ==
    LET rows == {r \in db.ResourcePermission :
                    /\ r.user = user
                    /\ r.resource_type = resource_type
                    /\ r.resource_id = str(resource_id)
                    /\ permission__code(r) = permission_code}
    IN  IF rows = {} THEN "None"
        ELSE PyBool((CHOOSE r \in rows : TRUE).is_granted)

\* UserPermission.objects.get(user, permission__code)
_check_user_permission(db, user, permission_code) ==
    LET rows == {r \in db.UserPermission :
                    r.user = user /\ permission__code(r) = permission_code}
    IN  IF rows = {} THEN "None"
        ELSE PyBool((CHOOSE r \in rows : TRUE).is_granted)

\* RolePermission rows of the user's roles that carry the code
_check_role_permission(db, user, permission_code) ==
    LET user_role_ids == {ur.role : ur \in {x \in db.UserRole : x.user = user}}
    IN  IF user_role_ids = {} THEN FALSE
        ELSE \E rp \in db.RolePermission :
                rp.role \in user_role_ids /\ permission__code(rp) = permission_code

\* the principal None, as a caller without a user object passes it
NoPrincipal == -2

\* user.is_superuser and user.is_active: the columns of a User row;
\* request.user of an unauthenticated request is django's AnonymousUser,
\* whose is_superuser and is_active are both False
is_superuser(db, user) == IF user = Anonymous THEN FALSE ELSE db.User[user].is_superuser
is_active(db, user) == IF user = Anonymous THEN FALSE ELSE db.User[user].is_active

\* a variant that forgets the superuser override
check_permission_NoSuperuser(db, user, resource_type, action, resource_id) ==
    IF user = NoPrincipal THEN Raises("AttributeError", 32, <<>>)
    ELSE IF ~is_active(db, user) THEN Returns("False", <<>>, FALSE)
    ELSE Raises("NameError", 48, <<>>)

\* a variant that forgets the inactive block
check_permission_NoInactive(db, user, resource_type, action, resource_id) ==
    IF user = NoPrincipal THEN Raises("AttributeError", 32, <<>>)
    ELSE IF is_superuser(db, user) THEN Returns("True", <<>>, FALSE)
    ELSE Raises("NameError", 48, <<>>)

\* PermissionService.check_permission.  Lines 42 and 48 read the name
\* permission_code.  The function has the parameters user, resource_type, action
\* and resource_id and assigns only resource_perm, user_perm and has_role_perm;
\* the module binds logging, the four models, logger, PermissionService,
\* has_permission and require_permission.  The name is bound nowhere, so the
\* read raises NameError before the helper is called.  Nothing looks at the
\* principal before line 32 reads user.is_superuser: on None that read raises
\* AttributeError.
check_permission(db, user, resource_type, action, resource_id) ==
    IF user = NoPrincipal THEN Raises("AttributeError", 32, <<>>)
    ELSE IF is_superuser(db, user) THEN Returns("True", <<>>, FALSE)
    ELSE IF ~is_active(db, user) THEN Returns("False", <<>>, FALSE)
    ELSE IF Truthy(resource_id) THEN Raises("NameError", 42, <<>>)
    ELSE Raises("NameError", 48, <<>>)

\* every ordering of a set as a list: what list(a_set) can give
Orderings(S) ==
    {f \in [1..Cardinality(S) -> S] : \A x \in S : \E i \in 1..Cardinality(S) : f[i] = x}

\* a variant that skips the final difference_update
PermissionSet_NoDeny(db, user) ==
    LET user_role_ids == {ur.role : ur \in {x \in db.UserRole : x.user = user}}
    IN  {permission__code(rp) : rp \in {x \in db.RolePermission : x.role \in user_role_ids}}
        \cup {permission__code(up) :
                up \in {x \in db.UserPermission : x.user = user /\ x.is_granted}}

\* a variant that also adds the codes granted at the resource layer
PermissionSet_WithResource(db, user) ==
    LET user_role_ids == {ur.role : ur \in {x \in db.UserRole : x.user = user}}
    IN  ({permission__code(rp) : rp \in {x \in db.RolePermission : x.role \in user_role_ids}}
         \cup {permission__code(up) :
                up \in {x \in db.UserPermission : x.user = user /\ x.is_granted}}
         \cup {permission__code(r) :
                r \in {x \in db.ResourcePermission : x.user = user /\ x.is_granted}})
        \ {permission__code(up) :
                up \in {x \in db.UserPermission : x.user = user /\ ~x.is_granted}}

\* a variant whose role lookup forgets the user filter
PermissionSet_AllRoles(db, user) ==
    LET user_role_ids == {ur.role : ur \in db.UserRole}
    IN  ({permission__code(rp) : rp \in {x \in db.RolePermission : x.role \in user_role_ids}}
         \cup {permission__code(up) :
                up \in {x \in db.UserPermission : x.user = user /\ x.is_granted}})
        \ {permission__code(up) :
                up \in {x \in db.UserPermission : x.user = user /\ ~x.is_granted}}

\* the set `permissions` of get_user_permissions when line 160 runs
PermissionSet(db, user) ==
    LET user_role_ids    == {ur.role : ur \in {x \in db.UserRole : x.user = user}}
        role_permissions == {permission__code(rp) :
                                rp \in {x \in db.RolePermission : x.role \in user_role_ids}}
        user_permissions == {permission__code(up) :
                                up \in {x \in db.UserPermission : x.user = user /\ x.is_granted}}
        denied_permissions == {permission__code(up) :
                                up \in {x \in db.UserPermission : x.user = user /\ ~x.is_granted}}
    IN  (role_permissions \cup user_permissions) \ denied_permissions

\* a variant that drops the two early returns
get_user_permissions_NoEarlyReturn(db, user) ==
    Orderings(PermissionSet(db, user))

\* PermissionService.get_user_permissions: the lists the call can return
get_user_permissions(db, user) ==
    IF db.User[user].is_superuser THEN {<<"*.*">>}
    ELSE IF ~db.User[user].is_active THEN {<<>>}
    ELSE Orderings(PermissionSet(db, user))

\* services.has_permission
has_permission(db, user, resource_type, action, resource_id) ==
    check_permission(db, user, resource_type, action, resource_id)

\* what a guarded operation gave: the exception that left it, whether the
\* protected function was invoked, and what the authorization check gave
Guarded(exc, invoked, check) == [exc |-> exc, invoked |-> invoked, check |-> check]

\* a variant whose wrapper runs the function and checks afterwards
require_permission_RunsFirst(db, user, resource_type, action, kwargs) ==
    LET resource_id == IF Truthy(kwargs.pk) THEN kwargs.pk ELSE kwargs.id
        allowed     == has_permission(db, user, resource_type, action, resource_id)
    IN  IF allowed.exc # "" THEN Guarded(allowed.exc, TRUE, allowed)
        ELSE IF allowed.value # "True" THEN Guarded("PermissionDenied", TRUE, allowed)
        ELSE Guarded("", TRUE, allowed)

\* the wrapper made by require_permission(resource_type, action)(func), called
\* with request.user = user and the keyword arguments kwargs
require_permission(db, user, resource_type, action, kwargs) ==
    LET resource_id == IF Truthy(kwargs.pk) THEN kwargs.pk ELSE kwargs.id
        allowed     == has_permission(db, user, resource_type, action, resource_id)
    IN  IF allowed.exc # "" THEN Guarded(allowed.exc, FALSE, allowed)
        ELSE IF allowed.value # "True" THEN Guarded("PermissionDenied", FALSE, allowed)
        ELSE Guarded("", TRUE, allowed)

----------------------------------------------------------------------------
(* The calls the engine serves *)

\* (resource_type, action) pairs callers ask about
Queries == {<<"document", "read">>, <<"admin", "access">>}

\* resource ids callers pass: none, pk given as int or as str
ResourceIds == {None, PyInt0, PyInt7, PyInt8}

\* has_permission(user, resource_type, action, resource_id) of services.py
CheckPermission(user, q, resource_id) ==
    /\ last' = [op |-> "check_permission", user |-> user, resource_type |-> q[1],
                action |-> q[2], resource_id |-> resource_id,
                out |-> check_permission(DB, user, q[1], q[2], resource_id)]
    /\ UNCHANGED <<inflight, User, UserRole, RolePermission, UserPermission, ResourcePermission>>

\* a variant that writes the override deletion back to the table
GetUserPermissions_Saves(user) ==
    /\ \E result \in get_user_permissions(DB, user) :
          last' = [op |-> "get_user_permissions", user |-> user, out |-> result]
    /\ UserPermission' = {up \in UserPermission : up.user # user \/ up.is_granted}
    /\ UNCHANGED <<inflight, User, UserRole, RolePermission, ResourcePermission>>

GetUserPermissions(user) ==
    /\ \E result \in get_user_permissions(DB, user) :
          last' = [op |-> "get_user_permissions", user |-> user, out |-> result]
    /\ UNCHANGED <<inflight, User, UserRole, RolePermission, UserPermission, ResourcePermission>>

----------------------------------------------------------------------------
(* accounts *)

\* User.soft_delete, reached through delete_account_view
soft_delete(user) ==
    /\ User' = [User EXCEPT ![user].is_active = FALSE]
    /\ last' = [op |-> "soft_delete", user |-> user]
    /\ UNCHANGED <<inflight, UserRole, RolePermission, UserPermission, ResourcePermission>>

----------------------------------------------------------------------------
(* permissions_system/permissions.py *)

\* IsAuthenticated.has_permission: bool(request.user and request.user.is_authenticated)
IsAuthenticated_has_permission(requester) == requester # Anonymous

\* IsAdminUser.has_permission
IsAdminUser_has_permission(db, requester) ==
    IF requester = Anonymous THEN Returns("False", <<>>, FALSE)
    ELSE IF db.User[requester].is_superuser THEN Returns("True", <<>>, FALSE)
    ELSE check_permission(db, requester, "admin", "access", None)

\* a variant with permission_classes = [IsAuthenticated]
AdminGate_AuthenticatedOnly(db, requester) ==
    IF ~IsAuthenticated_has_permission(requester) THEN 401 ELSE 0

\* permission_classes = [IsAuthenticated, IsAdminUser]: 0 lets the view run,
\* anything else is the status of the response sent in its place
AdminGate(db, requester) ==
    IF ~IsAuthenticated_has_permission(requester) THEN 401
    ELSE LET admin == IsAdminUser_has_permission(db, requester)
         IN  IF admin.exc # "" THEN 500
             ELSE IF admin.value = "True" THEN 0
             ELSE 403

\* a str value
PyStr(s) == [type |-> "str", repr |-> s]

\* request.user.is_authenticated: True on a User, False on AnonymousUser
is_authenticated(user) == user # Anonymous

\* one call of PermissionService.check_permission, by its arguments
Call(user, resource_type, action, resource_id) ==
    [user |-> user, resource_type |-> resource_type, action |-> action,
     resource_id |-> resource_id]

\* what a permission class gave: the value returned or the exception that
\* left it, and the check_permission calls it made
GateReturns(value) == [exc |-> "", value |-> value, calls |-> <<>>]
GateDelegates(db, call) ==
    LET out == check_permission(db, call.user, call.resource_type, call.action,
                                call.resource_id)
    IN  [exc |-> out.exc, value |-> out.value, calls |-> <<call>>]

\* a variant of the table that passes every kind through
action_map_Identity(action) == action

\* HasResourcePermission.action_map.get(action, action)
action_map(action) ==
    CASE action = "list"           -> "read"
      [] action = "retrieve"       -> "read"
      [] action = "create"         -> "create"
      [] action = "update"         -> "update"
      [] action = "partial_update" -> "update"
      [] action = "destroy"        -> "delete"
      [] OTHER                     -> action

\* HasResourcePermission.has_permission; view carries resource_type and
\* action as getattr(view, ..., None) reads them
HasResourcePermission_has_permission(db, user, view) ==
    IF user = NoPrincipal \/ ~is_authenticated(user) THEN GateReturns("False")
    ELSE IF ~Truthy(view.resource_type) \/ ~Truthy(view.action) THEN GateReturns("True")
    ELSE LET mapped_action == action_map(view.action.repr)
         IN  GateDelegates(db, Call(user, view.resource_type.repr, mapped_action, None))

\* the views the gate is asked about: the ViewSet actions of DRF, a custom
\* @action, and a view without resource_type or without action
ViewActions == {"list", "retrieve", "create", "update", "partial_update", "destroy", "archive"}
Views ==
    [resource_type : {None, PyStr("document")},
     action : {None} \cup {PyStr(a) : a \in ViewActions}]

\* the gate's collection check on a request
HasPermission(user, view) ==
    /\ last' = [op |-> "has_permission", user |-> user, view |-> view,
                out |-> HasResourcePermission_has_permission(DB, user, view)]
    /\ UNCHANGED <<inflight, User, UserRole, RolePermission, UserPermission, ResourcePermission>>

\* a variant that goes on to the check whatever the view carries
HasResourcePermission_has_object_permission_NoDefault(db, user, view, obj) ==
    GateDelegates(db, Call(user, view.resource_type.repr, action_map(view.action.repr),
                           IF Truthy(obj.id) THEN obj.id ELSE obj.pk))

\* HasResourcePermission.has_object_permission; obj carries id and pk as
\* getattr(obj, ..., None) reads them
HasResourcePermission_has_object_permission(db, user, view, obj) ==
    IF ~Truthy(view.resource_type) \/ ~Truthy(view.action) THEN GateReturns("True")
    ELSE LET mapped_action == action_map(view.action.repr)
             resource_id   == IF Truthy(obj.id) THEN obj.id ELSE obj.pk
         IN  GateDelegates(db, Call(user, view.resource_type.repr, mapped_action,
                                    resource_id))

\* the objects the gate is asked about: model instances, whose pk is their id,
\* and an object with neither attribute
Objects == {[id |-> v, pk |-> v] : v \in ResourceIds}

\* the gate's instance check on a request
HasObjectPermission(user, view, obj) ==
    /\ last' = [op |-> "has_object_permission", user |-> user, view |-> view, obj |-> obj,
                out |-> HasResourcePermission_has_object_permission(DB, user, view, obj)]
    /\ UNCHANGED <<inflight, User, UserRole, RolePermission, UserPermission, ResourcePermission>>

----------------------------------------------------------------------------
(* business_objects/views.py *)

\* DocumentViewSet: permission_classes = [IsAuthenticated, HasResourcePermission]
\* are asked in order before the handler of the action; the first that does
\* not give True ends the request
DocumentViewSet(db, user, action) ==
    LET view == [resource_type |-> PyStr("document"), action |-> PyStr(action)]
        gate == HasResourcePermission_has_permission(db, user, view)
    IN  IF ~IsAuthenticated_has_permission(user)
        THEN Guarded("NotAuthenticated", FALSE, GateReturns("False"))
        ELSE IF gate.exc # "" THEN Guarded(gate.exc, FALSE, gate)
        ELSE IF gate.value # "True" THEN Guarded("PermissionDenied", FALSE, gate)
        ELSE Guarded("", TRUE, gate)

\* the actions DocumentViewSet defines
DocumentActions == {"list", "retrieve", "create", "update", "destroy"}

\* a request to DocumentViewSet
Dispatch(user, action) ==
    /\ last' = [op |-> "dispatch", user |-> user, action |-> action,
                out |-> DocumentViewSet(DB, user, action)]
    /\ UNCHANGED <<inflight, User, UserRole, RolePermission, UserPermission, ResourcePermission>>

\* the keyword arguments a wrapped view is called with
Kwargs == {[pk |-> v, id |-> None] : v \in {None, PyInt0, PyStr7}}

\* a call of a function wrapped by require_permission
RequirePermission(user, q, kwargs) ==
    /\ last' = [op |-> "require_permission", user |-> user, resource_type |-> q[1],
                action |-> q[2], kwargs |-> kwargs,
                out |-> require_permission(DB, user, q[1], q[2], kwargs)]
    /\ UNCHANGED <<inflight, User, UserRole, RolePermission, UserPermission, ResourcePermission>>

----------------------------------------------------------------------------
(* permissions_system/views.py *)

\* a request field that is absent (or falsy)
Missing == -1

Requesters == UserIds \cup {Anonymous}
UserIdInputs == UserIds \cup {NoSuchId}
\* the role and the permission the administrative requests name, next to an
\* id that has no row and an absent field
RoleIdInputs == {r \in RoleIds : r = 1} \cup {NoSuchId, Missing}
PermissionIdInputs == {p \in PermissionIds : p = 9} \cup {NoSuchId, Missing}

\* rows held by the four grant tables
Rows == Cardinality(UserRole) + Cardinality(RolePermission)
        + Cardinality(UserPermission) + Cardinality(ResourcePermission)

Response(op, status, detail) == [op |-> op, status |-> status, detail |-> detail]

\* RoleViewSet.add_permission
add_permission(requester, pk, permission_id) ==
    LET gate == AdminGate(DB, requester)
        op   == "add_permission"
    IN  IF gate # 0
        THEN /\ last' = Response(op, gate, "permission_denied")
             /\ UNCHANGED <<inflight, User, UserRole, RolePermission, UserPermission, ResourcePermission>>
        ELSE IF pk \notin RoleIds
        THEN /\ last' = Response(op, 404, "role_not_found")
             /\ UNCHANGED <<inflight, User, UserRole, RolePermission, UserPermission, ResourcePermission>>
        ELSE IF permission_id = Missing
        THEN /\ last' = Response(op, 400, "permission_id_required")
             /\ UNCHANGED <<inflight, User, UserRole, RolePermission, UserPermission, ResourcePermission>>
        ELSE IF permission_id \notin {p.id : p \in Permission}
        THEN /\ last' = Response(op, 404, "permission_not_found")
             /\ UNCHANGED <<inflight, User, UserRole, RolePermission, UserPermission, ResourcePermission>>
        ELSE IF \E rp \in RolePermission : rp.role = pk /\ rp.permission = permission_id
        THEN /\ last' = Response(op, 400, "already_added")
             /\ UNCHANGED <<inflight, User, UserRole, RolePermission, UserPermission, ResourcePermission>>
        ELSE /\ Rows < MaxRows
             /\ RolePermission' = RolePermission \cup
                    {[role |-> pk, permission |-> permission_id, granted_by |-> requester]}
             /\ last' = Response(op, 201, "added")
             /\ UNCHANGED <<inflight, User, UserRole, UserPermission, ResourcePermission>>

\* RoleViewSet.remove_permission
remove_permission(requester, pk, permission_id) ==
    LET gate == AdminGate(DB, requester)
        op   == "remove_permission"
        rows == {rp \in RolePermission : rp.role = pk /\ rp.permission = permission_id}
    IN  IF gate # 0
        THEN /\ last' = Response(op, gate, "permission_denied")
             /\ UNCHANGED <<inflight, User, UserRole, RolePermission, UserPermission, ResourcePermission>>
        ELSE IF pk \notin RoleIds
        THEN /\ last' = Response(op, 404, "role_not_found")
             /\ UNCHANGED <<inflight, User, UserRole, RolePermission, UserPermission, ResourcePermission>>
        ELSE IF permission_id = Missing
        THEN /\ last' = Response(op, 400, "permission_id_required")
             /\ UNCHANGED <<inflight, User, UserRole, RolePermission, UserPermission, ResourcePermission>>
        ELSE IF rows = {}
        THEN /\ last' = Response(op, 404, "not_on_role")
             /\ UNCHANGED <<inflight, User, UserRole, RolePermission, UserPermission, ResourcePermission>>
        ELSE /\ RolePermission' = RolePermission \ rows
             /\ last' = Response(op, 200, "removed")
             /\ UNCHANGED <<inflight, User, UserRole, UserPermission, ResourcePermission>>

\* a variant that takes a repeated assignment as a reassignment
assign_role_to_user_Overwrites(requester, user_id, role_id) ==
    /\ AdminGate(DB, requester) = 0
    /\ user_id \in DOMAIN User
    /\ role_id \in RoleIds
    /\ Rows < MaxRows \/ \E ur \in UserRole : ur.user = user_id /\ ur.role = role_id
    /\ UserRole' = {ur \in UserRole : ~(ur.user = user_id /\ ur.role = role_id)} \cup
                    {[user |-> user_id, role |-> role_id, assigned_by |-> requester]}
    /\ last' = Response("assign_role_to_user", 201, "assigned")
    /\ UNCHANGED <<inflight, User, RolePermission, UserPermission, ResourcePermission>>

\* assign_role_to_user
assign_role_to_user(requester, user_id, role_id) ==
    LET gate == AdminGate(DB, requester)
        op   == "assign_role_to_user"
    IN  IF gate # 0
        THEN /\ last' = Response(op, gate, "permission_denied")
             /\ UNCHANGED <<inflight, User, UserRole, RolePermission, UserPermission, ResourcePermission>>
        ELSE IF user_id \notin DOMAIN User
        THEN /\ last' = Response(op, 404, "user_not_found")
             /\ UNCHANGED <<inflight, User, UserRole, RolePermission, UserPermission, ResourcePermission>>
        ELSE IF role_id = Missing
        THEN /\ last' = Response(op, 400, "serializer_errors")
             /\ UNCHANGED <<inflight, User, UserRole, RolePermission, UserPermission, ResourcePermission>>
        ELSE IF role_id \notin RoleIds
        THEN /\ last' = Response(op, 404, "role_not_found")
             /\ UNCHANGED <<inflight, User, UserRole, RolePermission, UserPermission, ResourcePermission>>
        ELSE IF \E ur \in UserRole : ur.user = user_id /\ ur.role = role_id
        THEN /\ last' = Response(op, 400, "already_assigned")
             /\ UNCHANGED <<inflight, User, UserRole, RolePermission, UserPermission, ResourcePermission>>
        ELSE /\ Rows < MaxRows
             /\ UserRole' = UserRole \cup
                    {[user |-> user_id, role |-> role_id, assigned_by |-> requester]}
             /\ last' = Response(op, 201, "assigned")
             /\ UNCHANGED <<inflight, User, RolePermission, UserPermission, ResourcePermission>>

\* a variant that deletes with filter(...).delete() and always reports success
revoke_role_from_user_Idempotent(requester, user_id, role_id) ==
    /\ AdminGate(DB, requester) = 0
    /\ user_id \in DOMAIN User
    /\ role_id # Missing
    /\ UserRole' = {ur \in UserRole : ~(ur.user = user_id /\ ur.role = role_id)}
    /\ last' = Response("revoke_role_from_user", 200, "revoked")
    /\ UNCHANGED <<inflight, User, RolePermission, UserPermission, ResourcePermission>>

\* revoke_role_from_user
revoke_role_from_user(requester, user_id, role_id) ==
    LET gate == AdminGate(DB, requester)
        op   == "revoke_role_from_user"
        rows == {ur \in UserRole : ur.user = user_id /\ ur.role = role_id}
    IN  IF gate # 0
        THEN /\ last' = Response(op, gate, "permission_denied")
             /\ UNCHANGED <<inflight, User, UserRole, RolePermission, UserPermission, ResourcePermission>>
        ELSE IF user_id \notin DOMAIN User
        THEN /\ last' = Response(op, 404, "user_not_found")
             /\ UNCHANGED <<inflight, User, UserRole, RolePermission, UserPermission, ResourcePermission>>
        ELSE IF role_id = Missing
        THEN /\ last' = Response(op, 400, "serializer_errors")
             /\ UNCHANGED <<inflight, User, UserRole, RolePermission, UserPermission, ResourcePermission>>
        ELSE IF rows = {}
        THEN /\ last' = Response(op, 404, "role_not_held")
             /\ UNCHANGED <<inflight, User, UserRole, RolePermission, UserPermission, ResourcePermission>>
        ELSE /\ UserRole' = UserRole \ rows
             /\ last' = Response(op, 200, "revoked")
             /\ UNCHANGED <<inflight, User, RolePermission, UserPermission, ResourcePermission>>

\* a variant that uses get_or_create: an existing row is left as it is
grant_permission_to_user_GetOrCreate(requester, user_id, permission_id, is_granted) ==
    LET rows == {up \in UserPermission : up.user = user_id /\ up.permission = permission_id}
    IN  /\ AdminGate(DB, requester) = 0
        /\ user_id \in DOMAIN User
        /\ permission_id \in {p.id : p \in Permission}
        /\ IF rows # {}
           THEN /\ UserPermission' = UserPermission
                /\ last' = Response("grant_permission_to_user", 200, "updated")
           ELSE /\ Rows < MaxRows
                /\ UserPermission' = UserPermission \cup
                        {[user |-> user_id, permission |-> permission_id,
                          is_granted |-> is_granted, granted_by |-> requester]}
                /\ last' = Response("grant_permission_to_user", 201, "created")
        /\ UNCHANGED <<inflight, User, UserRole, RolePermission, ResourcePermission>>

\* grant_permission_to_user: UserPermission.objects.update_or_create
grant_permission_to_user(requester, user_id, permission_id, is_granted) ==
    LET gate == AdminGate(DB, requester)
        op   == "grant_permission_to_user"
        rows == {up \in UserPermission : up.user = user_id /\ up.permission = permission_id}
        row  == [user |-> user_id, permission |-> permission_id,
                 is_granted |-> is_granted, granted_by |-> requester]
    IN  IF gate # 0
        THEN /\ last' = Response(op, gate, "permission_denied")
             /\ UNCHANGED <<inflight, User, UserRole, RolePermission, UserPermission, ResourcePermission>>
        ELSE IF user_id \notin DOMAIN User
        THEN /\ last' = Response(op, 404, "user_not_found")
             /\ UNCHANGED <<inflight, User, UserRole, RolePermission, UserPermission, ResourcePermission>>
        ELSE IF permission_id = Missing
        THEN /\ last' = Response(op, 400, "serializer_errors")
             /\ UNCHANGED <<inflight, User, UserRole, RolePermission, UserPermission, ResourcePermission>>
        ELSE IF permission_id \notin {p.id : p \in Permission}
        THEN /\ last' = Response(op, 404, "permission_not_found")
             /\ UNCHANGED <<inflight, User, UserRole, RolePermission, UserPermission, ResourcePermission>>
        ELSE IF rows # {}
        THEN /\ UserPermission' = (UserPermission \ rows) \cup {row}
             /\ last' = Response(op, 200, "updated")
             /\ UNCHANGED <<inflight, User, UserRole, RolePermission, ResourcePermission>>
        ELSE /\ Rows < MaxRows
             /\ UserPermission' = UserPermission \cup {row}
             /\ last' = Response(op, 201, "created")
             /\ UNCHANGED <<inflight, User, UserRole, RolePermission, ResourcePermission>>

\* revoke_permission_from_user
revoke_permission_from_user(requester, user_id, permission_id) ==
    LET gate == AdminGate(DB, requester)
        op   == "revoke_permission_from_user"
        rows == {up \in UserPermission : up.user = user_id /\ up.permission = permission_id}
    IN  IF gate # 0
        THEN /\ last' = Response(op, gate, "permission_denied")
             /\ UNCHANGED <<inflight, User, UserRole, RolePermission, UserPermission, ResourcePermission>>
        ELSE IF user_id \notin DOMAIN User
        THEN /\ last' = Response(op, 404, "user_not_found")
             /\ UNCHANGED <<inflight, User, UserRole, RolePermission, UserPermission, ResourcePermission>>
        ELSE IF permission_id = Missing
        THEN /\ last' = Response(op, 400, "permission_id_required")
             /\ UNCHANGED <<inflight, User, UserRole, RolePermission, UserPermission, ResourcePermission>>
        ELSE IF rows = {}
        THEN /\ last' = Response(op, 404, "permission_not_held")
             /\ UNCHANGED <<inflight, User, UserRole, RolePermission, UserPermission, ResourcePermission>>
        ELSE /\ UserPermission' = UserPermission \ rows
             /\ last' = Response(op, 200, "revoked")
             /\ UNCHANGED <<inflight, User, UserRole, RolePermission, ResourcePermission>>

----------------------------------------------------------------------------
(* The specification *)

\* ResourcePermission rows: no view writes them; the table is filled through
\* the ORM, one row per (user, resource_type, resource_id, permission)
ResourceRows ==
    [user : UserIds, resource_type : {"document"}, resource_id : {"7"},
     permission : {1}, is_granted : BOOLEAN]

ResourceKey(r) == <<r.user, r.resource_type, r.resource_id, r.permission>>

ResourceTables ==
    {t \in SUBSET ResourceRows :
        /\ Cardinality(t) <= MaxRows
        /\ \A a, b \in t : ResourceKey(a) = ResourceKey(b) => a = b}

\* the link tables as the ORM can hold them: unique_together on each
UserRoleTables ==
    {t \in SUBSET [user : UserIds, role : RoleIds, assigned_by : {Null}] :
        Cardinality(t) <= MaxRows}

RolePermissionTables ==
    {t \in SUBSET [role : RoleIds, permission : PermissionIds, granted_by : {Null}] :
        Cardinality(t) <= MaxRows}

UserPermissionTables ==
    {t \in SUBSET [user : UserIds, permission : PermissionIds,
                   is_granted : BOOLEAN, granted_by : {Null}] :
        /\ Cardinality(t) <= MaxRows
        /\ \A a, b \in t : (a.user = b.user /\ a.permission = b.permission) => a = b}

\* users as create_user / create_superuser make them (is_active defaults to True)
InitUsers == User = [id \in UserIds |-> [is_superuser |-> (id = 1), is_active |-> TRUE]]

\* a populated database, nothing called yet
Init ==
    /\ InitUsers
    /\ UserRole \in UserRoleTables
    /\ RolePermission \in RolePermissionTables
    /\ UserPermission \in UserPermissionTables
    /\ ResourcePermission \in ResourceTables
    /\ Rows <= MaxRows
    /\ last = [op |-> "none"]
    /\ inflight = <<>>

\* the engine's two queries against a database that no one is administering
Next ==
    \/ \E user \in UserIds, q \in Queries, resource_id \in ResourceIds :
          CheckPermission(user, q, resource_id)
    \/ \E user \in UserIds : GetUserPermissions(user)
    \/ \E user \in UserIds : soft_delete(user)

Spec == Init /\ [][Next]_vars

\* an empty database administered through the views
\* user 1 made by create_superuser, user 2 by create_superuser or create_user
InitAdmin ==
    /\ User \in {[id \in UserIds |-> [is_superuser |-> (id = 1 \/ su), is_active |-> TRUE]] :
                    su \in BOOLEAN}
    /\ UserRole = {}
    /\ RolePermission = {}
    /\ UserPermission = {}
    /\ ResourcePermission = {}
    /\ last = [op |-> "none"]
    /\ inflight = <<>>

NextAdmin ==
    \/ \E user \in {u \in UserIds : ~User[u].is_superuser} : soft_delete(user)
    \/ \E requester \in Requesters, pk \in RoleIdInputs, permission_id \in PermissionIdInputs :
          add_permission(requester, pk, permission_id)
    \/ \E requester \in Requesters, pk \in RoleIdInputs, permission_id \in PermissionIdInputs :
          remove_permission(requester, pk, permission_id)
    \/ \E requester \in Requesters, user_id \in UserIdInputs, role_id \in RoleIdInputs :
          assign_role_to_user(requester, user_id, role_id)
    \/ \E requester \in Requesters, user_id \in UserIdInputs, role_id \in RoleIdInputs :
          revoke_role_from_user(requester, user_id, role_id)
    \/ \E requester \in Requesters, user_id \in UserIdInputs,
          permission_id \in PermissionIdInputs, is_granted \in BOOLEAN :
          grant_permission_to_user(requester, user_id, permission_id, is_granted)
    \/ \E requester \in Requesters, user_id \in UserIdInputs, permission_id \in PermissionIdInputs :
          revoke_permission_from_user(requester, user_id, permission_id)

SpecAdmin == InitAdmin /\ [][NextAdmin]_vars

----------------------------------------------------------------------------
(* The seeded database *)

SeedRoleByName(name) == CHOOSE r \in {SeedRoles[i] : i \in DOMAIN SeedRoles} : r.name = name

\* RolePermission.objects.get_or_create(role, permission) for each code of each role
SeedRolePermission ==
    {[role |-> SeedRoleByName(n).id, permission |-> p.id, granted_by |-> Null] :
        <<n, p>> \in {x \in SeedRoleNames \X Permission : x[2].code \in SeedRoleByName(x[1]).codes}}

\* UserRole.objects.create(user, role) for each test user
SeedUserRole ==
    {[user |-> u.id, role |-> SeedRoleByName(u.role).id, assigned_by |-> Null] :
        u \in {SeedUsers[i] : i \in {j \in DOMAIN SeedUsers : SeedUsers[j].role \in SeedRoleNames}}}

\* the id createsuperuser gives after the four seeded users
SuperuserId == Len(SeedUsers) + 1
\* viewer@test.com
ViewerId == 4

\* the seeded users (create_user: not superuser, active) and one superuser
SeedUserTable ==
    [id \in {r.user : r \in SeedUserRole} \cup {SuperuserId} |->
        [is_superuser |-> (id = SuperuserId), is_active |-> TRUE]]

\* instance overrides written through the ORM next to the seed: none, or
\* for the viewer a deny of document 7 and a deny of document 0
SeedResourceTables ==
    { {},
      {[user |-> ViewerId, resource_type |-> "document", resource_id |-> "7",
        permission |-> 1, is_granted |-> FALSE],
       [user |-> ViewerId, resource_type |-> "document", resource_id |-> "0",
        permission |-> 1, is_granted |-> FALSE]} }

InitSeed ==
    /\ User = SeedUserTable
    /\ UserRole = SeedUserRole
    /\ RolePermission = SeedRolePermission
    /\ UserPermission = {}
    /\ ResourcePermission \in SeedResourceTables
    /\ last = [op |-> "none"]
    /\ inflight = <<>>

\* the queries made against the seeded database
SeedQueries ==
    {<<"document", "read">>, <<"document", "delete">>, <<"project", "read">>,
     <<"admin", "access">>}

\* who a request can come from: a user, nobody, or no user object at all
Principals == DOMAIN User \cup {Anonymous, NoPrincipal}

\* the accounts whose owners delete them
Leavers == {ViewerId, SuperuserId}

NextSeed ==
    \/ \E user \in Principals, q \in SeedQueries, resource_id \in ResourceIds :
          CheckPermission(user, q, resource_id)
    \/ \E user \in DOMAIN User : GetUserPermissions(user)
    \/ \E user \in Leavers : soft_delete(user)
    \/ \E user \in Principals, view \in Views : HasPermission(user, view)
    \/ \E user \in Principals, view \in Views, obj \in Objects :
          HasObjectPermission(user, view, obj)
    \/ \E user \in DOMAIN User \cup {Anonymous}, action \in DocumentActions :
          Dispatch(user, action)
    \/ \E user \in Principals, q \in SeedQueries, kwargs \in Kwargs :
          RequirePermission(user, q, kwargs)

SpecSeed == InitSeed /\ [][NextSeed]_vars

----------------------------------------------------------------------------
(* Requests served side by side *)

\* the threads that serve requests
Workers == {1, 2}

\* a thread between requests
Idle == [pc |-> "idle"]
\* a handler that has produced its response
Done(call, status, detail) ==
    [pc |-> "done", call |-> call, status |-> status, detail |-> detail]
\* a handler that passed its existence check and stands before objects.create
Creating(call) == [pc |-> "create", call |-> call]

\* a check_permission call that has been entered and has not returned: the
\* call and the store states that existed since it was entered
Checking(call, during) == [pc |-> "check", call |-> call, during |-> during]
\* a check_permission call that has ended
Checked(call, out, during) == [pc |-> "done", call |-> call, out |-> out, during |-> during]

\* the store has become db: every running check_permission call has lived
\* through one more store state
Witnessed(flights, db) ==
    [w \in DOMAIN flights |->
        IF flights[w].pc = "check"
        THEN Checking(flights[w].call, flights[w].during \cup {db})
        ELSE flights[w]]

\* PermissionService.check_permission is entered by a request thread
check_permission_enter(w, user, q) ==
    /\ inflight[w] = Idle
    /\ inflight' = [inflight EXCEPT ![w] =
            Checking([op |-> "check_permission", user |-> user,
                      resource_type |-> q[1], action |-> q[2]], {DB})]
    /\ UNCHANGED <<User, UserRole, RolePermission, UserPermission, ResourcePermission, last>>

\* PermissionService.check_permission runs to its end on the store as it is now
check_permission_return(w) ==
    /\ inflight[w].pc = "check"
    /\ LET call == inflight[w].call
       IN  inflight' = [inflight EXCEPT ![w] =
                Checked(call,
                        check_permission(DB, call.user, call.resource_type, call.action, None),
                        inflight[w].during)]
    /\ UNCHANGED <<User, UserRole, RolePermission, UserPermission, ResourcePermission, last>>

\* assign_role_to_user from the permission classes to the existence check of
\* line 129: every return before the insert
assign_role_to_user_check(w, requester, user_id, role_id) ==
    LET gate == AdminGate(DB, requester)
        call == [op |-> "assign_role_to_user", requester |-> requester,
                 user_id |-> user_id, key |-> role_id]
    IN  /\ inflight[w] = Idle
        /\ inflight' = [inflight EXCEPT ![w] =
              IF gate # 0 THEN Done(call, gate, "permission_denied")
              ELSE IF user_id \notin DOMAIN User THEN Done(call, 404, "user_not_found")
              ELSE IF role_id = Missing THEN Done(call, 400, "serializer_errors")
              ELSE IF role_id \notin RoleIds THEN Done(call, 404, "role_not_found")
              ELSE IF \E ur \in UserRole : ur.user = user_id /\ ur.role = role_id
                   THEN Done(call, 400, "already_assigned")
              ELSE Creating(call)]
        /\ UNCHANGED <<User, UserRole, RolePermission, UserPermission, ResourcePermission, last>>

\* assign_role_to_user, UserRole.objects.create of line 134: the insert of a
\* second row for the pair breaks unique_together and raises IntegrityError,
\* which nothing in the view catches
assign_role_to_user_create(w) ==
    /\ inflight[w].pc = "create"
    /\ inflight[w].call.op = "assign_role_to_user"
    /\ LET call == inflight[w].call
       IN  IF \E ur \in UserRole : ur.user = call.user_id /\ ur.role = call.key
           THEN /\ inflight' = [inflight EXCEPT ![w] = Done(call, 500, "IntegrityError")]
                /\ UNCHANGED UserRole
           ELSE /\ UserRole' = UserRole \cup
                        {[user |-> call.user_id, role |-> call.key,
                          assigned_by |-> call.requester]}
                /\ inflight' = Witnessed([inflight EXCEPT ![w] = Done(call, 201, "assigned")],
                                         [DB EXCEPT !.UserRole = UserRole'])
    /\ UNCHANGED <<User, RolePermission, UserPermission, ResourcePermission, last>>

\* RoleViewSet.add_permission from the permission classes to the existence
\* check of line 49
add_permission_check(w, requester, pk, permission_id) ==
    LET gate == AdminGate(DB, requester)
        call == [op |-> "add_permission", requester |-> requester,
                 user_id |-> pk, key |-> permission_id]
    IN  /\ inflight[w] = Idle
        /\ inflight' = [inflight EXCEPT ![w] =
              IF gate # 0 THEN Done(call, gate, "permission_denied")
              ELSE IF pk \notin RoleIds THEN Done(call, 404, "role_not_found")
              ELSE IF permission_id = Missing THEN Done(call, 400, "permission_id_required")
              ELSE IF permission_id \notin {p.id : p \in Permission}
                   THEN Done(call, 404, "permission_not_found")
              ELSE IF \E rp \in RolePermission : rp.role = pk /\ rp.permission = permission_id
                   THEN Done(call, 400, "already_added")
              ELSE Creating(call)]
        /\ UNCHANGED <<User, UserRole, RolePermission, UserPermission, ResourcePermission, last>>

\* RoleViewSet.add_permission, RolePermission.objects.create of line 54
add_permission_create(w) ==
    /\ inflight[w].pc = "create"
    /\ inflight[w].call.op = "add_permission"
    /\ LET call == inflight[w].call
       IN  IF \E rp \in RolePermission : rp.role = call.user_id /\ rp.permission = call.key
           THEN /\ inflight' = [inflight EXCEPT ![w] = Done(call, 500, "IntegrityError")]
                /\ UNCHANGED RolePermission
           ELSE /\ RolePermission' = RolePermission \cup
                        {[role |-> call.user_id, permission |-> call.key,
                          granted_by |-> call.requester]}
                /\ inflight' = Witnessed([inflight EXCEPT ![w] = Done(call, 201, "added")],
                                         [DB EXCEPT !.RolePermission = RolePermission'])
    /\ UNCHANGED <<User, UserRole, UserPermission, ResourcePermission, last>>

\* the response leaves; the thread takes the next request
respond(w) ==
    /\ inflight[w].pc = "done"
    /\ inflight' = [inflight EXCEPT ![w] = Idle]
    /\ UNCHANGED <<User, UserRole, RolePermission, UserPermission, ResourcePermission, last>>

InitRace ==
    /\ InitUsers
    /\ UserRole = {}
    /\ RolePermission = {}
    /\ UserPermission = {}
    /\ ResourcePermission = {}
    /\ last = [op |-> "none"]
    /\ inflight = [w \in Workers |-> Idle]

NextRace ==
    \/ \E w \in Workers, requester \in Requesters, user_id \in UserIdInputs,
          role_id \in RoleIdInputs : assign_role_to_user_check(w, requester, user_id, role_id)
    \/ \E w \in Workers : assign_role_to_user_create(w)
    \/ \E w \in Workers, requester \in Requesters, pk \in RoleIdInputs,
          permission_id \in PermissionIdInputs : add_permission_check(w, requester, pk, permission_id)
    \/ \E w \in Workers : add_permission_create(w)
    \/ \E w \in Workers : respond(w)
    \/ \E w \in Workers, user \in UserIds, q \in Queries : check_permission_enter(w, user, q)
    \/ \E w \in Workers : check_permission_return(w)

SpecRace == InitRace /\ [][NextRace]_vars

----------------------------------------------------------------------------
(* Properties of PermissionService *)

\* the permission code the engine is specified to look up
CodeOf(resource_type, action) == resource_type \o "." \o action

IsCheck == last.op = "check_permission"
IsEffective == last.op = "get_user_permissions"

\* the principal of the last call is an active non-superuser
ActivePrincipal == User[last.user].is_active /\ ~User[last.user].is_superuser

\* the last check_permission call ended by returning the boolean `value`
Returned(value) == last.out.exc = "" /\ last.out.value = value

\* what each layer holds for the last check_permission call
ResourceLayer ==
    IF Truthy(last.resource_id)
    THEN _check_resource_permission(DB, last.user, CodeOf(last.resource_type, last.action),
                                    last.resource_type, last.resource_id)
    ELSE "None"
UserLayer == _check_user_permission(DB, last.user, CodeOf(last.resource_type, last.action))
RoleLayer == _check_role_permission(DB, last.user, CodeOf(last.resource_type, last.action))

\* C1: for an active non-superuser, check_permission computes the permission
\* code before the layer lookups and ends by returning a boolean, never in a
\* fault about the code being undefined.
C1_ReturnsBoolean ==
    (IsCheck /\ ActivePrincipal) =>
        (last.out.exc = "" /\ last.out.value \in {"True", "False"})

\* C2: for a superuser, check_permission returns true for every query, whatever
\* rows exist and whatever is_active is, without any layer lookup.
C2_SuperuserGranted ==
    (IsCheck /\ User[last.user].is_superuser) =>
        (Returned("True") /\ last.out.lookups = <<>>)

\* a deactivated superuser with an explicit deny at the user layer and at the
\* resource layer for the very query made is granted
C2_Witness ==
    /\ IsCheck
    /\ User[last.user].is_superuser
    /\ ~User[last.user].is_active
    /\ ResourceLayer = "False"
    /\ UserLayer = "False"
    /\ Returned("True")

\* C3: for an inactive non-superuser, check_permission returns false for every
\* query, whatever grants exist, and decides before any layer lookup.
C3_InactiveDenied ==
    (IsCheck /\ ~User[last.user].is_superuser /\ ~User[last.user].is_active) =>
        (Returned("False") /\ last.out.lookups = <<>>)

\* a soft-deleted user with a grant at the resource, the user and the role
\* layer for the very query made is denied
C3_Witness ==
    /\ IsCheck
    /\ ~User[last.user].is_superuser
    /\ ~User[last.user].is_active
    /\ ResourceLayer = "True"
    /\ UserLayer = "True"
    /\ RoleLayer
    /\ Returned("False")

\* C4: for an active non-superuser and a provided resource_id, a
\* ResourcePermission row at the queried key decides the call: its is_granted is
\* returned whatever the user and role layers hold.
C4_ResourceRowDecides ==
    (IsCheck /\ ActivePrincipal /\ ResourceLayer # "None") => Returned(ResourceLayer)

\* C5: for an active non-superuser with no applicable ResourcePermission row, a
\* UserPermission row for the code decides the call, whatever the roles grant.
C5_UserRowDecides ==
    (IsCheck /\ ActivePrincipal /\ ResourceLayer = "None" /\ UserLayer # "None") =>
        Returned(UserLayer)

\* C6: for an active non-superuser with no applicable ResourcePermission row and
\* no UserPermission row, check_permission returns true iff a role of the
\* principal carries the code; a non-superuser is never granted without a
\* granting row at some layer.
C6_RoleFallback ==
    /\ (IsCheck /\ ActivePrincipal /\ ResourceLayer = "None" /\ UserLayer = "None") =>
            Returned(PyBool(RoleLayer))
    /\ (IsCheck /\ ~User[last.user].is_superuser /\ Returned("True")) =>
            (ResourceLayer = "True" \/ UserLayer = "True" \/ RoleLayer)

\* C7: a ResourcePermission row applies only to the resource_id it names: a
\* call for another resource_id of the same user and code falls through to the
\* user layer and then to the role layer.
C7_PerKeyOverride ==
    ( /\ IsCheck
      /\ ActivePrincipal
      /\ Truthy(last.resource_id)
      /\ ResourceLayer = "None"
      /\ \E r \in ResourcePermission :
            /\ r.user = last.user
            /\ r.resource_type = last.resource_type
            /\ permission__code(r) = CodeOf(last.resource_type, last.action)
            /\ r.resource_id # str(last.resource_id) ) =>
        Returned(IF UserLayer # "None" THEN UserLayer ELSE PyBool(RoleLayer))

\* the elements of a list
Elements(list) == {list[i] : i \in 1..Len(list)}

AllCodes == {p.code : p \in Permission}

\* the codes some role of the user carries
RoleCodes(user) ==
    {c \in AllCodes : \E ur \in UserRole, rp \in RolePermission :
        ur.user = user /\ rp.role = ur.role /\ permission__code(rp) = c}

\* the codes of the user's UserPermission rows of one polarity
DirectCodes(user, is_granted) ==
    {c \in AllCodes : \E up \in UserPermission :
        up.user = user /\ up.is_granted = is_granted /\ permission__code(up) = c}

\* C8: for an active non-superuser, get_user_permissions returns exactly the
\* role codes united with the directly granted codes, minus the directly denied
\* codes, each code once.
C8_EffectiveSet ==
    (IsEffective /\ ActivePrincipal) =>
        /\ Elements(last.out) =
              (RoleCodes(last.user) \cup DirectCodes(last.user, TRUE))
                  \ DirectCodes(last.user, FALSE)
        /\ Len(last.out) = Cardinality(Elements(last.out))

\* a user holding two roles that carry one code each is returned both codes
C8_Witness ==
    /\ IsEffective
    /\ ActivePrincipal
    /\ \E a, b \in UserRole :
          /\ a.user = last.user /\ b.user = last.user /\ a.role # b.role
          /\ {permission__code(rp) : rp \in {x \in RolePermission : x.role = a.role}}
                = {"document.read"}
          /\ {permission__code(rp) : rp \in {x \in RolePermission : x.role = b.role}}
                = {"admin.access"}
    /\ Elements(last.out) = {"document.read", "admin.access"}
    /\ Len(last.out) = 2

\* C9: get_user_permissions returns the single wildcard for a superuser and the
\* empty list for an inactive non-superuser, whatever the store holds.
C9_WildcardOrEmpty ==
    IsEffective =>
        /\ User[last.user].is_superuser => last.out = <<"*.*">>
        /\ (~User[last.user].is_superuser /\ ~User[last.user].is_active) => last.out = <<>>

\* an inactive non-superuser holding a role grant and a direct grant gets the
\* empty list
C9_Witness ==
    /\ IsEffective
    /\ ~User[last.user].is_superuser
    /\ ~User[last.user].is_active
    /\ RoleCodes(last.user) # {}
    /\ DirectCodes(last.user, TRUE) # {}
    /\ last.out = <<>>

\* C10: get_user_permissions ignores the resource-instance layer: the list it
\* returned is one it can return under every other ResourcePermission table.
C10_IgnoresResourceLayer ==
    IsEffective =>
        \A t \in ResourceTables :
            last.out \in get_user_permissions([DB EXCEPT !.ResourcePermission = t], last.user)

\* an active user whose only grant is a ResourcePermission row is returned
\* nothing
C10_Witness ==
    /\ IsEffective
    /\ ActivePrincipal
    /\ \E r \in ResourcePermission : r.user = last.user /\ r.is_granted
    /\ last.out = <<>>

----------------------------------------------------------------------------
(* The seeded scenario *)

\* C11: in the seeded store the viewer, active and without override rows, is
\* granted document.read, denied document.delete, and has exactly the
\* effective permissions document.read and project.read.
C11_ViewerScenario ==
    ( /\ last.op \in {"check_permission", "get_user_permissions"}
      /\ last.user = ViewerId
      /\ ActivePrincipal
      /\ {ur.role : ur \in {x \in UserRole : x.user = ViewerId}} = {SeedRoleByName("viewer").id}
      /\ ~\E r \in UserPermission \cup ResourcePermission : r.user = ViewerId ) =>
        /\ (IsCheck /\ last.resource_type = "document" /\ last.action = "read"
                /\ last.resource_id = None) => Returned("True")
        /\ (IsCheck /\ last.resource_type = "document" /\ last.action = "delete"
                /\ last.resource_id = None) => Returned("False")
        /\ IsEffective => Elements(last.out) = {"document.read", "project.read"}

----------------------------------------------------------------------------
(* The gate *)

IsGate(op) == "op" \in DOMAIN last /\ last.op = op
ViewIsSet(view) == view.resource_type # None /\ view.action # None

\* C12: for an authenticated principal and a view with both resource_type and
\* action set, has_permission makes exactly one call, check_permission(principal,
\* resource_type, a) without resource id, and gives what that call gave; a is
\* read for list and retrieve, create for create, update for update and
\* partial_update, delete for destroy, and the kind itself otherwise.
C12_CollectionDelegates ==
    (IsGate("has_permission") /\ last.user \in DOMAIN User /\ ViewIsSet(last.view)) =>
        LET kind == last.view.action.repr
            a == IF kind \in {"list", "retrieve"} THEN "read"
                 ELSE IF kind = "create" THEN "create"
                 ELSE IF kind \in {"update", "partial_update"} THEN "update"
                 ELSE IF kind = "destroy" THEN "delete"
                 ELSE kind
            out == check_permission(DB, last.user, last.view.resource_type.repr, a, None)
        IN  /\ last.out.calls = << [user |-> last.user,
                                    resource_type |-> last.view.resource_type.repr,
                                    action |-> a, resource_id |-> None] >>
            /\ last.out.exc = out.exc
            /\ last.out.value = out.value

\* a superuser's partial_update reached check_permission as update and was granted
C12_Witness ==
    /\ IsGate("has_permission")
    /\ last.user = SuperuserId
    /\ last.view = [resource_type |-> PyStr("document"), action |-> PyStr("partial_update")]
    /\ Len(last.out.calls) = 1
    /\ last.out.calls[1].action = "update"
    /\ last.out.value = "True"

Permits == last.out.exc = "" /\ last.out.value = "True" /\ last.out.calls = <<>>

\* C13: when resource_type or the operation kind is absent from the view, the
\* collection check and the instance check both permit without calling
\* check_permission, for every principal.
C13_AbsentPermits ==
    ((IsGate("has_permission") \/ IsGate("has_object_permission"))
        /\ ~ViewIsSet(last.view)) => Permits

\* C13 as the code has it: with resource_type or the operation kind absent,
\* the instance check permits for every principal, the collection check
\* permits for every authenticated principal and returns False for an
\* unauthenticated or missing one; neither calls check_permission.
C13_AbsentPermitsAuthenticated ==
    ((IsGate("has_permission") \/ IsGate("has_object_permission"))
        /\ ~ViewIsSet(last.view)) =>
        /\ last.out.calls = <<>>
        /\ last.out.exc = ""
        /\ IF IsGate("has_permission") /\ last.user \notin DOMAIN User
           THEN last.out.value = "False"
           ELSE last.out.value = "True"

\* the instance check permitted a deactivated viewer on a view without action
C13_Witness ==
    /\ IsGate("has_object_permission")
    /\ last.user = ViewerId
    /\ ~User[ViewerId].is_active
    /\ last.view = [resource_type |-> PyStr("document"), action |-> None]
    /\ Permits

\* C14: for an active principal who is not a superuser, the instance check
\* maps the operation kind, calls check_permission with the object's id, and
\* an existing ResourcePermission row for (principal, resource_type, that id,
\* code) decides the outcome, for every id value, 0 and integer ids included.
C14_InstanceRowDecides ==
    (/\ IsGate("has_object_permission")
     /\ ViewIsSet(last.view)
     /\ last.user \in DOMAIN User
     /\ ~User[last.user].is_superuser
     /\ User[last.user].is_active
     /\ last.obj.id # None) =>
        LET rt   == last.view.resource_type.repr
            a    == action_map(last.view.action.repr)
            rows == {r \in ResourcePermission :
                        /\ r.user = last.user
                        /\ r.resource_type = rt
                        /\ r.resource_id = str(last.obj.id)
                        /\ permission__code(r) = CodeOf(rt, a)}
        IN  /\ last.out.calls = <<Call(last.user, rt, a, last.obj.id)>>
            /\ \A r \in rows : last.out.exc = "" /\ last.out.value = PyBool(r.is_granted)

\* C15: a function wrapped by require_permission, or a handler behind the
\* gate, is invoked only when the authorization check returned True; when the
\* check returned False the function is not invoked and the outcome is a
\* permission-denied error.
C15_FailClosed ==
    (IsGate("require_permission") \/ IsGate("dispatch")) =>
        /\ last.out.invoked => (last.out.check.exc = "" /\ last.out.check.value = "True")
        /\ (last.out.check.exc = "" /\ last.out.check.value = "False") =>
                /\ ~last.out.invoked
                /\ last.out.exc \in {"PermissionDenied", "NotAuthenticated"}

\* the wrapper refused a deactivated viewer: the check gave False, the function
\* did not run and PermissionDenied was raised
C15_Witness ==
    /\ IsGate("require_permission")
    /\ last.user = ViewerId
    /\ last.out.check.exc = ""
    /\ last.out.check.value = "False"
    /\ ~last.out.invoked
    /\ last.out.exc = "PermissionDenied"

----------------------------------------------------------------------------
(* Frame of the engine *)

\* C16: a check_permission or get_user_permissions call leaves the UserRole,
\* RolePermission, UserPermission and ResourcePermission rows and the flags of
\* every user as they were, whatever it returns (the Permission and Role
\* tables have no writer at all).
C16_EngineReadsOnly ==
    [][(last' # last /\ last'.op \in {"check_permission", "get_user_permissions"}) =>
            UNCHANGED <<User, UserRole, RolePermission, UserPermission, ResourcePermission>>]_vars

\* get_user_permissions ran for an active user holding a deny override, with
\* rows in every table, and the deny row is still there
C16_Witness ==
    /\ IsEffective
    /\ ActivePrincipal
    /\ \E up \in UserPermission : up.user = last.user /\ ~up.is_granted
    /\ UserRole # {} /\ RolePermission # {} /\ ResourcePermission # {}

----------------------------------------------------------------------------
(* Principals that are not users *)

\* C17: check_permission rejects a None principal, and a principal without an
\* id, before the superuser check with an InvalidPrincipal outcome that is
\* neither True nor False, and performs no layer lookup.
C17_InvalidPrincipalRejected ==
    (IsCheck /\ last.user \in {NoPrincipal, Anonymous}) =>
        /\ last.out.exc = "InvalidPrincipal"
        /\ last.out.lookups = <<>>

----------------------------------------------------------------------------
(* The denial log *)

\* C18: every check_permission call that returns False emits the denial event
\* (logger.warning), whichever step denied, and no call that returns True
\* emits it.
C18_DenialLogged ==
    IsCheck =>
        /\ Returned("False") => last.out.warned
        /\ Returned("True") => ~last.out.warned

----------------------------------------------------------------------------
(* The administrative views *)

\* C19: assign_role_to_user for a (user, role) pair that already has a UserRole
\* row, and add_permission for a (role, permission) pair that already has a
\* RolePermission row, answer with an error, create no row and leave the
\* existing row, its assigned_by / granted_by included, as it was.
C19_DuplicateRejected ==
    [][ /\ last'.op = "assign_role_to_user" =>
           \A requester \in Requesters, user_id \in UserIds, role_id \in RoleIds :
            ( /\ AdminGate(DB, requester) = 0
              /\ \E ur \in UserRole : ur.user = user_id /\ ur.role = role_id
              /\ assign_role_to_user(requester, user_id, role_id) ) =>
                /\ last'.status = 400
                /\ UNCHANGED <<User, UserRole, RolePermission, UserPermission,
                               ResourcePermission>>
        /\ last'.op = "add_permission" =>
           \A requester \in Requesters, pk \in RoleIds, permission_id \in PermissionIds :
            ( /\ AdminGate(DB, requester) = 0
              /\ \E rp \in RolePermission : rp.role = pk /\ rp.permission = permission_id
              /\ add_permission(requester, pk, permission_id) ) =>
                /\ last'.status = 400
                /\ UNCHANGED <<User, UserRole, RolePermission, UserPermission,
                               ResourcePermission>>
      ]_vars

\* a repeated assignment was refused while the row of the first one, made by
\* the other superuser, is in the table
C19_Witness ==
    /\ last = Response("assign_role_to_user", 400, "already_assigned")
    /\ \E ur \in UserRole : ur.assigned_by = 2
    /\ \A ur \in UserRole : ur.assigned_by # 1
    /\ User[1].is_superuser /\ User[2].is_superuser

UserPermissionRows(user_id, permission_id) ==
    {up \in UserPermission : up.user = user_id /\ up.permission = permission_id}

\* C20: every grant_permission_to_user call that goes through leaves exactly
\* one UserPermission row for its (user, permission), carrying the is_granted
\* and the granted_by of that call, and leaves the rows of other pairs alone;
\* it reports creation when the pair had no row and update when it had one.
\* So at any time no pair has two rows.
C20_UpsertIdempotent ==
    /\ [](\A a, b \in UserPermission :
            (a.user = b.user /\ a.permission = b.permission) => a = b)
    /\ [][(last'.op = "grant_permission_to_user" /\ last'.status \in {200, 201}) =>
           \A requester \in Requesters, user_id \in UserIds, permission_id \in PermissionIds,
            is_granted \in BOOLEAN :
            grant_permission_to_user(requester, user_id, permission_id, is_granted) =>
                /\ UserPermissionRows(user_id, permission_id)' =
                        {[user |-> user_id, permission |-> permission_id,
                          is_granted |-> is_granted, granted_by |-> requester]}
                /\ UserPermission' \ UserPermissionRows(user_id, permission_id)' =
                        UserPermission \ UserPermissionRows(user_id, permission_id)
                /\ last'.status = 201 <=> UserPermissionRows(user_id, permission_id) = {}
                /\ last'.status = 200 <=> UserPermissionRows(user_id, permission_id) # {}
      ]_vars

\* a later call by the other superuser turned a grant into a deny: the call
\* reported an update and the only row of the pair is the deny
C20_Witness ==
    /\ last = Response("grant_permission_to_user", 200, "updated")
    /\ \E user_id \in UserIds, permission_id \in PermissionIds :
          UserPermissionRows(user_id, permission_id) =
              {[user |-> user_id, permission |-> permission_id,
                is_granted |-> FALSE, granted_by |-> 2]}
    /\ Cardinality(UserPermission) = 1

----------------------------------------------------------------------------
(* Requests served side by side *)

\* no two rows of a table share the table's key
UniqueRows ==
    /\ \A a, b \in UserRole : (a.user = b.user /\ a.role = b.role) => a = b
    /\ \A a, b \in RolePermission : (a.role = b.role /\ a.permission = b.permission) => a = b
    /\ \A a, b \in UserPermission : (a.user = b.user /\ a.permission = b.permission) => a = b
    /\ \A a, b \in ResourcePermission :
          (a.user = b.user /\ a.resource_type = b.resource_type
              /\ a.resource_id = b.resource_id /\ a.permission = b.permission) => a = b

\* the call is one of the two check-then-create requests
IsAdministrative(call) == call.op \in {"assign_role_to_user", "add_permission"}

\* C21: under every interleaving of two assign_role_to_user calls for one
\* (user, role), or two add_permission calls for one (role, permission), at
\* most one row for the pair exists, one call reports success and the other
\* ends with the conflict outcome (400), never with an unhandled store fault;
\* the keys of the four tables are unique in every reachable state.
C21_RaceFree ==
    /\ UniqueRows
    /\ \A w \in Workers :
          (inflight[w].pc = "done" /\ IsAdministrative(inflight[w].call)) =>
                inflight[w].detail # "IntegrityError"
    /\ \A v, w \in Workers :
          ( /\ v # w
            /\ inflight[v].pc = "done" /\ inflight[w].pc = "done"
            /\ IsAdministrative(inflight[v].call) /\ IsAdministrative(inflight[w].call)
            /\ inflight[v].call.op = inflight[w].call.op
            /\ inflight[v].call.user_id = inflight[w].call.user_id
            /\ inflight[v].call.key = inflight[w].call.key
            /\ inflight[v].status = 201
            /\ inflight[w].detail # "permission_denied" ) => inflight[w].status = 400

----------------------------------------------------------------------------
(* Requests that name what does not exist *)

\* ids a request can carry in a field that is present
NamedUsers == UserIdInputs
NamedRoles == RoleIdInputs \ {Missing}
NamedPermissions == PermissionIdInputs \ {Missing}

\* the request was answered 404 and every table is as it was
NotFoundUnchanged ==
    /\ last'.status = 404
    /\ UNCHANGED <<User, UserRole, RolePermission, UserPermission, ResourcePermission>>

\* C22: an administrative mutation by an administrator that names something
\* that does not exist is answered not-found (404) and leaves every table
\* unchanged: a revoke of a role not held, a revoke of a permission without a
\* UserPermission row, a removal of a permission not on the role, and an
\* assign / grant / add naming a user, role or permission without a row.
C22_NotFound ==
    [][ \A requester \in {r \in Requesters : AdminGate(DB, r) = 0} :
        /\ last'.op = "revoke_role_from_user" =>
           \A user_id \in NamedUsers, role_id \in NamedRoles :
            ( /\ ~\E ur \in UserRole : ur.user = user_id /\ ur.role = role_id
              /\ revoke_role_from_user(requester, user_id, role_id) ) => NotFoundUnchanged
        /\ last'.op = "revoke_permission_from_user" =>
           \A user_id \in NamedUsers, permission_id \in NamedPermissions :
            ( /\ ~\E up \in UserPermission : up.user = user_id /\ up.permission = permission_id
              /\ revoke_permission_from_user(requester, user_id, permission_id) ) =>
                NotFoundUnchanged
        /\ last'.op = "remove_permission" =>
           \A pk \in NamedRoles, permission_id \in NamedPermissions :
            ( /\ ~\E rp \in RolePermission : rp.role = pk /\ rp.permission = permission_id
              /\ remove_permission(requester, pk, permission_id) ) => NotFoundUnchanged
        /\ last'.op = "assign_role_to_user" =>
           \A user_id \in NamedUsers, role_id \in NamedRoles :
            ( /\ user_id \notin DOMAIN User \/ role_id \notin RoleIds
              /\ assign_role_to_user(requester, user_id, role_id) ) => NotFoundUnchanged
        /\ last'.op = "grant_permission_to_user" =>
           \A user_id \in NamedUsers, permission_id \in NamedPermissions, is_granted \in BOOLEAN :
            ( /\ user_id \notin DOMAIN User \/ permission_id \notin {p.id : p \in Permission}
              /\ grant_permission_to_user(requester, user_id, permission_id, is_granted) ) =>
                NotFoundUnchanged
        /\ last'.op = "add_permission" =>
           \A pk \in NamedRoles, permission_id \in NamedPermissions :
            ( /\ pk \notin RoleIds \/ permission_id \notin {p.id : p \in Permission}
              /\ add_permission(requester, pk, permission_id) ) => NotFoundUnchanged
      ]_vars

\* a revoke of a role the user does not hold was answered 404 while the user
\* holds a direct permission and the role carries one
C22_Witness ==
    /\ last = Response("revoke_role_from_user", 404, "role_not_held")
    /\ UserRole = {}
    /\ UserPermission # {}
    /\ RolePermission # {}

----------------------------------------------------------------------------
(* Who changes the grant tables *)

\* the requester is authenticated and is a superuser or is granted admin.access
IsAdministrator(requester) ==
    /\ requester # Anonymous
    /\ \/ User[requester].is_superuser
       \/ LET out == check_permission(DB, requester, "admin", "access", None)
          IN  out.exc = "" /\ out.value = "True"

\* one of the six administrative requests, made by requester
AdministrativeRequest(requester) ==
    \/ \E pk \in RoleIdInputs, permission_id \in PermissionIdInputs :
          \/ add_permission(requester, pk, permission_id)
          \/ remove_permission(requester, pk, permission_id)
    \/ \E user_id \in UserIdInputs, role_id \in RoleIdInputs :
          \/ assign_role_to_user(requester, user_id, role_id)
          \/ revoke_role_from_user(requester, user_id, role_id)
    \/ \E user_id \in UserIdInputs, permission_id \in PermissionIdInputs :
          \/ \E is_granted \in BOOLEAN :
                grant_permission_to_user(requester, user_id, permission_id, is_granted)
          \/ revoke_permission_from_user(requester, user_id, permission_id)

\* C23: an administrative request changes the grant tables only when its
\* requester is authenticated and is a superuser or has check_permission(
\* requester, "admin", "access") = True at that moment; a request of any other
\* requester leaves the tables, and so every decision, as they were.
C23_OnlyAdministrators ==
    [][ <<UserRole, RolePermission, UserPermission, ResourcePermission>>' #
            <<UserRole, RolePermission, UserPermission, ResourcePermission>> =>
        \A requester \in Requesters :
            ~IsAdministrator(requester) => ~AdministrativeRequest(requester)
      ]_vars

\* a grant asked by user 2, who is neither superuser nor active, was refused
\* with 403 while user 1 had already given user 2 a direct permission
C23_Witness ==
    /\ last = Response("grant_permission_to_user", 403, "permission_denied")
    /\ ~User[2].is_superuser
    /\ \E up \in UserPermission : up.user = 2 /\ up.granted_by = 1

----------------------------------------------------------------------------
(* The two queries side by side *)

\* C24: for an active principal who is not a superuser, check_permission
\* without resource_id returns True exactly when the code resource_type.action
\* is in the list get_user_permissions gives for the same store, and returns
\* False otherwise.
C24_QueriesAgree ==
    (IsCheck /\ ActivePrincipal /\ last.resource_id = None) =>
        \A permissions \in get_user_permissions(DB, last.user) :
            IF CodeOf(last.resource_type, last.action) \in Elements(permissions)
            THEN Returned("True")
            ELSE Returned("False")

----------------------------------------------------------------------------
(* A decision while the tables change *)

\* the precedence rules without resource id on one store state: superuser,
\* inactive, the user's own row, then the roles
Decide(db, user, resource_type, action) ==
    LET code == CodeOf(resource_type, action)
        own  == _check_user_permission(db, user, code)
    IN  IF db.User[user].is_superuser THEN "True"
        ELSE IF ~db.User[user].is_active THEN "False"
        ELSE IF own # "None" THEN own
        ELSE PyBool(_check_role_permission(db, user, code))

\* C25: a check_permission call that runs while administrative requests
\* change the tables returns a boolean, and that boolean is what the
\* precedence rules give on at least one store state that existed between the
\* start and the end of the call.
C25_SnapshotConsistent ==
    \A w \in Workers :
        (inflight[w].pc = "done" /\ inflight[w].call.op = "check_permission") =>
            /\ inflight[w].out.exc = ""
            /\ \E db \in inflight[w].during :
                  inflight[w].out.value =
                      Decide(db, inflight[w].call.user, inflight[w].call.resource_type,
                             inflight[w].call.action)

----------------------------------------------------------------------------
(* One user's view of the store *)

\* the store with everything that is not user's taken away: the rows of other
\* users, the RolePermission rows of roles user does not hold, and the flags
\* of other users put back to those of a fresh account
OwnPart(db, user) ==
    LET held == {ur.role : ur \in {x \in db.UserRole : x.user = user}}
    IN  [User |-> [id \in DOMAIN db.User |->
                      IF id = user THEN db.User[id]
                      ELSE [is_superuser |-> FALSE, is_active |-> TRUE]],
         UserRole |-> {x \in db.UserRole : x.user = user},
         RolePermission |-> {x \in db.RolePermission : x.role \in held},
         UserPermission |-> {x \in db.UserPermission : x.user = user},
         ResourcePermission |-> {x \in db.ResourcePermission : x.user = user}]

\* C26: what check_permission(u, ...) and get_user_permissions(u) give is what
\* they give on u's own part of the store, so two stores that differ only in
\* rows of other users, or in RolePermission rows of roles u does not hold,
\* give the same results for u.
C26_UserIsolation ==
    /\ IsCheck =>
          last.out = check_permission(OwnPart(DB, last.user), last.user, last.resource_type,
                                      last.action, last.resource_id)
    /\ IsEffective =>
          /\ last.out \in get_user_permissions(OwnPart(DB, last.user), last.user)
          /\ get_user_permissions(DB, last.user) =
                get_user_permissions(OwnPart(DB, last.user), last.user)

\* get_user_permissions gave user 2 the one code of the role held, while
\* user 1 has a direct row and another role carries another code
C26_Witness ==
    /\ IsEffective
    /\ last.user = 2
    /\ ActivePrincipal
    /\ \E up \in UserPermission : up.user = 1
    /\ \E ur \in UserRole : ur.user = 2
    /\ \E rp \in RolePermission : rp.role \notin {ur.role : ur \in {x \in UserRole : x.user = 2}}
    /\ Len(last.out) = 1

====
